---- MODULE Spec2Model ----
(***************************************************************************)
(* Model of WebCrawler (crawl.py): the concurrent breadth-first crawl of   *)
(* one seed, _bfs_crawl_concurrent, with its worker tasks                  *)
(* (_crawl_single_page, _fetch_page).                                      *)
(*                                                                         *)
(* A URL is the record that urlparse yields for it: its netloc and its     *)
(* path, each a sequence of one-character strings.  Text(url) is the URL   *)
(* as the string the code compares and tests with lower().endswith().      *)
(***************************************************************************)
EXTENDS Integers, Sequences, FiniteSets, TLC

\* ---------------------------------------------------------------- bounds
MaxPagesBound == 3      \* max_pages ranges over 0..MaxPagesBound
MaxWorkersBound == 2    \* max_workers ranges over 1..MaxWorkersBound
MaxRetryBound == 2      \* retry_count ranges over 0..MaxRetryBound
MaxLinks == 2           \* a fetched page holds at most MaxLinks <a href> tags

\* ------------------------------------------------------------ the web site
start_url == [netloc |-> <<"a">>, path |-> <<"/">>]
PageX     == [netloc |-> <<"a">>, path |-> <<"/", "x">>]
PageY     == [netloc |-> <<"a">>, path |-> <<"/", "y">>]
PageZ     == [netloc |-> <<"a">>, path |-> <<"/", "z">>]
PdfDoc    == [netloc |-> <<"a">>, path |-> <<"/", "d", ".", "P", "d", "F">>]
Offsite   == [netloc |-> <<"b">>, path |-> <<"/", "x">>]
\* an href such as "http://[" : urljoin raises ValueError on it
BadHref   == [netloc |-> <<"[">>, path |-> <<>>]

Urls  == {start_url, PageX, PageY, PageZ, PdfDoc, Offsite}
Hrefs == Urls \cup {BadHref}

\* the text of a URL, scheme included
Text(url) == <<"h", "t", "t", "p", ":", "/", "/">> \o url.netloc \o url.path

UpperCase == <<"A","B","C","D","E","F","G","H","I","J","K","L","M",
               "N","O","P","Q","R","S","T","U","V","W","X","Y","Z">>
LowerCase == <<"a","b","c","d","e","f","g","h","i","j","k","l","m",
               "n","o","p","q","r","s","t","u","v","w","x","y","z">>

\* str.lower() on one character
LowerChar(c) ==
    IF \E k \in 1..Len(UpperCase) : UpperCase[k] = c
    THEN LowerCase[CHOOSE k \in 1..Len(UpperCase) : UpperCase[k] = c]
    ELSE c

\* str.lower()
Lower(s) == [k \in 1..Len(s) |-> LowerChar(s[k])]

\* str.endswith(suffix)
EndsWith(s, suffix) ==
    /\ Len(s) >= Len(suffix)
    /\ SubSeq(s, Len(s) - Len(suffix) + 1, Len(s)) = suffix

PdfSuffix == <<".", "p", "d", "f">>

\* link.lower().endswith('.pdf')
IsPdf(link) == EndsWith(Lower(Text(link)), PdfSuffix)

\* urlparse(url).netloc
Netloc(url) == url.netloc

\* urljoin(url, href) raises ValueError("Invalid IPv6 URL") when the netloc of
\* the href has one of '[' and ']' without the other
UrljoinRaises(href) ==
    (\E k \in 1..Len(href.netloc) : href.netloc[k] = "[")
      # (\E k \in 1..Len(href.netloc) : href.netloc[k] = "]")

\* SameDomain without the comparison of the netloc
SameDomain_any(full_url, base_domain) == TRUE

\* urlparse(full_url).netloc == base_domain
SameDomain(full_url, base_domain) == Netloc(full_url) = base_domain

\* ------------------------------------------------------- fetch outcomes
Statuses == {200, 403, 409, 404}
Exceptions == {"ReadTimeout", "Exception"}

\* what one requests.get call ends in: a response with a status code (and,
\* for a 200, whether its Content-Type contains text/html) or an exception
Outcomes ==
    {[exc |-> "none", status |-> s, html |-> FALSE] : s \in Statuses}
      \cup {[exc |-> "none", status |-> 200, html |-> TRUE]}
      \cup {[exc |-> e, status |-> 0, html |-> FALSE] : e \in Exceptions}

NoOutcome == [exc |-> "none", status |-> 0, html |-> FALSE]

\* Retryable with every status but 200 taken as a reason to retry
Retryable_non200(o) == o.exc # "none" \/ o.status # 200

\* the outcomes after which _fetch_page sleeps and goes to the next attempt
Retryable(o) == o.exc # "none" \/ o.status \in {403, 409}

\* the response is returned to _crawl_single_page
IsSuccess(o) == o.exc = "none" /\ o.status = 200

\* the ordered lists of <a href> a page can hold
RECURSIVE SeqsUpTo(_, _)
SeqsUpTo(S, n) ==
    IF n = 0 THEN {<<>>}
    ELSE LET shorter == SeqsUpTo(S, n - 1)
         IN  shorter \cup {Append(s, x) : s \in shorter, x \in S}

HrefLists == SeqsUpTo(Hrefs, MaxLinks)

\* the page bodies that can come with outcome o: only a 200 text/html
\* response is parsed
Bodies(o) == IF o.html THEN HrefLists ELSE {<<>>}

\* --------------------------------------------------------------- state
VARIABLES
    max_pages, max_workers, retry_count,  \* the configuration
    visited, queue, page_count,           \* locals of _bfs_crawl_concurrent
    batch,                                \* the batch of the current round
    tasks,                                \* the futures not yet yielded
    pc,                                   \* position of the driver thread
    round,                                \* number of rounds started
    output,                               \* the pages written to file_obj
    submitted,                            \* per URL, times submitted
    dropped                               \* the links the filters refused

vars == <<max_pages, max_workers, retry_count, visited, queue, page_count,
          batch, tasks, pc, round, output, submitted, dropped>>

config == <<max_pages, max_workers, retry_count>>

base_domain == Netloc(start_url)

NoResult   == [kind |-> "pending", links |-> <<>>]
NoneResult == [kind |-> "none", links |-> <<>>]
Raised     == [kind |-> "raise", links |-> <<>>]
PageResult(links) == [kind |-> "page", links |-> links]

NewTask(u, r) ==
    [url |-> u, round |-> r, status |-> "running", attempt |-> 0,
     last |-> NoOutcome, result |-> NoResult]

Init ==
    /\ max_pages \in 0..MaxPagesBound
    /\ max_workers \in 1..MaxWorkersBound
    /\ retry_count \in 0..MaxRetryBound
    /\ visited = {}
    /\ queue = <<start_url>>
    /\ page_count = 0
    /\ batch = <<>>
    /\ tasks = <<>>
    /\ pc = "loop"
    /\ round = 0
    /\ output = <<>>
    /\ submitted = [u \in Urls |-> 0]
    /\ dropped = {}

\* ------------------------------------------------------- the driver thread
\* number of occurrences of u in the sequence s
Count(s, u) == Cardinality({k \in 1..Len(s) : s[k] = u})

\* the condition of the outer while loop
LoopCond(q, pcount, pages) == q # <<>> /\ pcount < pages

\* CanDraw without the test of the page budget
CanDraw_nobudget(q, b, pcount, workers, pages) ==
    /\ q # <<>>
    /\ Len(b) < workers

\* CanDraw that lets the batch grow one past max_workers
CanDraw_offbyone(q, b, pcount, workers, pages) ==
    /\ q # <<>>
    /\ Len(b) <= workers
    /\ pcount + Len(b) < pages

\* the condition of the inner while loop that fills the batch
CanDraw(q, b, pcount, workers, pages) ==
    /\ q # <<>>
    /\ Len(b) < workers
    /\ pcount + Len(b) < pages

\* NotVisited without the look-up in the visited set
NotVisited_always(url, vis) == TRUE

\* the test "url not in visited" made on a URL popped from the queue
NotVisited(url, vis) == url \notin vis

\* DrawLoop that pops from the right of the queue (pop for popleft)
RECURSIVE DrawLoop_lifo(_, _, _, _, _, _)
DrawLoop_lifo(q, vis, b, pcount, workers, pages) ==
    IF CanDraw(q, b, pcount, workers, pages)
    THEN LET url == q[Len(q)]
             rest == SubSeq(q, 1, Len(q) - 1)
         IN  IF NotVisited(url, vis)
             THEN DrawLoop_lifo(rest, vis \cup {url}, Append(b, url),
                                pcount, workers, pages)
             ELSE DrawLoop_lifo(rest, vis, b, pcount, workers, pages)
    ELSE [queue |-> q, visited |-> vis, batch |-> b]

\* the inner while loop: pops URLs from the left of the queue, and puts each
\* one that is not visited into the visited set and into the batch
RECURSIVE DrawLoop(_, _, _, _, _, _)
DrawLoop(q, vis, b, pcount, workers, pages) ==
    IF CanDraw(q, b, pcount, workers, pages)
    THEN LET url == Head(q)
         IN  IF NotVisited(url, vis)
             THEN DrawLoop(Tail(q), vis \cup {url}, Append(b, url),
                           pcount, workers, pages)
             ELSE DrawLoop(Tail(q), vis, b, pcount, workers, pages)
    ELSE [queue |-> q, visited |-> vis, batch |-> b]

Drawn == DrawLoop(queue, visited, <<>>, page_count, max_workers, max_pages)

\* a task the executor has not finished running
InFlight(t) == t.status = "running"

\* the futures of the current round
Futures == {i \in 1..Len(tasks) : tasks[i].round = round}

\* RoundDone that leaves the loop while one future is still to be yielded
RoundDone_early(ts, r) ==
    Cardinality({i \in 1..Len(ts) : ts[i].round = r}) <= 1

\* as_completed(futures) is exhausted: every future of the round was yielded
RoundDone(ts, r) == \A i \in 1..Len(ts) : ts[i].round # r

\* the sequence s without its i-th element
RemoveAt(s, i) == SubSeq(s, 1, i - 1) \o SubSeq(s, i + 1, Len(s))

\* Admit with endswith('.pdf') on the link as written, without lower()
Admit_casesensitive(link, vis) ==
    ~EndsWith(Text(link), PdfSuffix) /\ link \notin vis

\* Admit without the test "link not in visited"
Admit_novisited(link, vis) == ~IsPdf(link)

\* the filter of a discovered link before queue.append(link)
Admit(link, vis) == ~IsPdf(link) /\ link \notin vis

\* the links of one result that the for loop appends to the queue
Enqueued(new_links, vis) == SelectSeq(new_links, LAMBDA l : Admit(l, vis))

\* the links of one result that the for loop skips as PDF files
SkippedPdf(new_links) ==
    {new_links[k] : k \in {j \in 1..Len(new_links) : IsPdf(new_links[j])}}

\* NextCount that leaves page_count as it is
NextCount_same(pcount) == pcount

\* page_count += 1
NextCount(pcount) == pcount + 1

\* Written that puts the new page before the pages written so far
Written_front(out, entry) == <<entry>> \o out

\* file_obj.write of one page: the entry goes to the end of the file
Written(out, entry) == Append(out, entry)

\* one round starts: the batch is drawn and every URL of it is submitted
StartRound ==
    /\ pc = "loop"
    /\ LoopCond(queue, page_count, max_pages)
    /\ Drawn.batch # <<>>
    /\ queue' = Drawn.queue
    /\ visited' = Drawn.visited
    /\ batch' = Drawn.batch
    /\ round' = round + 1
    /\ tasks' = SelectSeq(tasks, InFlight)
                  \o [i \in 1..Len(Drawn.batch) |->
                        NewTask(Drawn.batch[i], round + 1)]
    /\ submitted' = [u \in Urls |-> submitted[u] + Count(Drawn.batch, u)]
    /\ pc' = "collect"
    /\ UNCHANGED <<config, page_count, output, dropped>>

\* the draw gives no URL (every queued URL was already visited): break
EmptyBatch ==
    /\ pc = "loop"
    /\ LoopCond(queue, page_count, max_pages)
    /\ Drawn.batch = <<>>
    /\ queue' = Drawn.queue
    /\ visited' = Drawn.visited
    /\ batch' = <<>>
    /\ pc' = "done"
    /\ UNCHANGED <<config, page_count, tasks, round, output, submitted,
                   dropped>>

\* the outer loop ends: the queue is empty or the budget is reached
LoopExit ==
    /\ pc = "loop"
    /\ ~LoopCond(queue, page_count, max_pages)
    /\ pc' = "done"
    /\ UNCHANGED <<config, visited, queue, page_count, batch, tasks, round,
                   output, submitted, dropped>>

\* the body of "for future in as_completed(futures)" for one completed future
ProcessResult(i) ==
    /\ pc = "collect"
    /\ i \in Futures
    /\ tasks[i].status = "done"
    /\ tasks' = RemoveAt(tasks, i)
    /\ CASE tasks[i].result.kind = "none" ->
              /\ UNCHANGED <<pc, page_count, output, queue, dropped>>
         [] tasks[i].result.kind = "raise" ->
              \* future.result() raises the exception of the task again
              /\ pc' = "raised"
              /\ UNCHANGED <<page_count, output, queue, dropped>>
         [] tasks[i].result.kind = "page" ->
              /\ output' = Written(output, [url |-> tasks[i].url,
                                            round |-> tasks[i].round])
              /\ page_count' = NextCount(page_count)
              /\ queue' = queue \o Enqueued(tasks[i].result.links, visited)
              /\ dropped' = dropped \cup SkippedPdf(tasks[i].result.links)
              /\ pc' = pc
    /\ UNCHANGED <<config, visited, batch, round, submitted>>

\* every future of the round was processed: back to the outer while
EndRound ==
    /\ pc = "collect"
    /\ RoundDone(tasks, round)
    /\ pc' = "loop"
    /\ UNCHANGED <<config, visited, queue, page_count, batch, tasks, round,
                   output, submitted, dropped>>

\* ------------------------------------------------------- the worker tasks
\* HasAttempt with the loop bound off by one
HasAttempt_offbyone(attempt, retries) == attempt <= retries

\* the loop "for attempt in range(self.retry_count)" has an attempt left
HasAttempt(attempt, retries) == attempt < retries

\* the same-domain links _crawl_single_page collects from the parsed page
NewLinks(hrefs, domain) == SelectSeq(hrefs, LAMBDA h : SameDomain(h, domain))

\* the hrefs of a parsed page that the same-domain test leaves out
OffDomain(hrefs, domain) ==
    {hrefs[k] : k \in {j \in 1..Len(hrefs) : ~SameDomain(hrefs[j], domain)}}

\* PageOutcome without the test of the Content-Type
PageOutcome_anycontent(o, hrefs, domain) ==
    IF ~IsSuccess(o) THEN NoneResult
    ELSE IF \E k \in 1..Len(hrefs) : UrljoinRaises(hrefs[k]) THEN Raised
    ELSE PageResult(NewLinks(hrefs, domain))

\* what _crawl_single_page returns once _fetch_page has ended with outcome o
PageOutcome(o, hrefs, domain) ==
    IF ~IsSuccess(o) \/ ~o.html THEN NoneResult
    ELSE IF \E k \in 1..Len(hrefs) : UrljoinRaises(hrefs[k]) THEN Raised
    ELSE PageResult(NewLinks(hrefs, domain))

\* one pass of the retry loop of _fetch_page in the task of tasks[i], and,
\* when it ends the fetch, the rest of _crawl_single_page
FetchAttempt(i, o, hrefs) ==
    /\ i \in 1..Len(tasks)
    /\ tasks[i].status = "running"
    /\ HasAttempt(tasks[i].attempt, retry_count)
    /\ dropped' = IF PageOutcome(o, hrefs, base_domain).kind = "page"
                  THEN dropped \cup OffDomain(hrefs, base_domain)
                  ELSE dropped
    /\ IF IsSuccess(o)
       THEN tasks' = [tasks EXCEPT ![i].attempt = @ + 1,
                                   ![i].last = o,
                                   ![i].status = "done",
                                   ![i].result = PageOutcome(o, hrefs, base_domain)]
       ELSE IF Retryable(o)
       THEN tasks' = [tasks EXCEPT ![i].attempt = @ + 1,
                                   ![i].last = o]
       ELSE tasks' = [tasks EXCEPT ![i].attempt = @ + 1,
                                   ![i].last = o,
                                   ![i].status = "done",
                                   ![i].result = NoneResult]
    /\ UNCHANGED <<config, visited, queue, page_count, batch, pc, round,
                   output, submitted>>

\* the retry loop is exhausted: _fetch_page returns None, the page is skipped
GiveUp(i) ==
    /\ i \in 1..Len(tasks)
    /\ tasks[i].status = "running"
    /\ ~HasAttempt(tasks[i].attempt, retry_count)
    /\ tasks' = [tasks EXCEPT ![i].status = "done",
                              ![i].result = NoneResult]
    /\ UNCHANGED <<config, visited, queue, page_count, batch, pc, round,
                   output, submitted, dropped>>

Next ==
    \/ StartRound
    \/ EmptyBatch
    \/ LoopExit
    \/ \E i \in 1..Len(tasks) : ProcessResult(i)
    \/ EndRound
    \/ \E i \in 1..Len(tasks), o \in Outcomes :
          \E hrefs \in Bodies(o) : FetchAttempt(i, o, hrefs)
    \/ \E i \in 1..Len(tasks) : GiveUp(i)

Spec == Init /\ [][Next]_vars

\* every enabled step of the driver or of a task is eventually taken
FairSpec == Spec /\ WF_vars(Next)

\* ------------------------------------------------------------ properties
Range(s) == {s[k] : k \in 1..Len(s)}

Running == {i \in 1..Len(tasks) : tasks[i].status = "running"}

\* C1: no duplicate visits: every URL is placed in at most one batch, hence
\* submitted to _crawl_single_page at most once in the crawl of a seed
NoDuplicateVisits ==
    /\ \A u \in Urls : submitted[u] <= 1
    /\ \A u \in Urls : Count(batch, u) <= 1

\* a URL was drawn and submitted once while another copy of it, discovered a
\* second time, still waits in the queue
DuplicateDiscovered ==
    \E u \in Urls : submitted[u] = 1 /\ u \in Range(queue) /\ round >= 2

\* C2: budget respected: at the end of every round and at the return,
\* page_count is at most max_pages
BudgetRespected ==
    pc \in {"loop", "done"} => page_count <= max_pages

\* the crawl returned because the budget was reached, with URLs still queued
BudgetReached ==
    /\ pc = "done"
    /\ page_count = max_pages
    /\ max_pages >= 3
    /\ queue # <<>>

\* C3: round barrier: every task in flight belongs to the current round, so
\* no task of a round is submitted while a task of an earlier round runs
RoundBarrier ==
    \A i \in Running : tasks[i].round = round

\* a third round runs after a round of two parallel tasks
ThirdRoundRuns ==
    /\ round = 3
    /\ Cardinality(visited) >= 4
    /\ Running # {}

\* C4: domain containment: every URL in the queue, in a batch, in the visited
\* set or given to a task has the netloc of the seed URL
DomainContainment ==
    /\ \A u \in Range(queue) \cup Range(batch) \cup visited :
          u.netloc = start_url.netloc
    /\ \A i \in 1..Len(tasks) : tasks[i].url.netloc = start_url.netloc
    /\ \A u \in Urls : u.netloc # start_url.netloc => submitted[u] = 0

\* a crawled page held a link to another host next to an admitted link, and
\* its result was processed
OffsiteLinkFound ==
    /\ Offsite \in dropped
    /\ tasks = <<>>
    /\ page_count >= 1
    /\ queue # <<>>

\* C5: retry bound: a task whose every attempt ended in a retryable outcome
\* finishes after exactly retry_count attempts with the skip result, and no
\* URL is attempted more than retry_count times
RetryBound ==
    \A i \in 1..Len(tasks) :
        /\ tasks[i].attempt <= retry_count
        /\ submitted[tasks[i].url] <= 1
        /\ (tasks[i].status = "done"
              /\ (tasks[i].attempt = 0
                    \/ tasks[i].last.exc # "none"
                    \/ tasks[i].last.status \in {403, 409}))
             => /\ tasks[i].attempt = retry_count
                /\ tasks[i].result = NoneResult

\* a task gave up after two attempts that both ended in a retryable outcome
RetriesExhausted ==
    \E i \in 1..Len(tasks) :
        /\ tasks[i].status = "done"
        /\ tasks[i].attempt = 2
        /\ tasks[i].last.exc = "ReadTimeout"
        /\ tasks[i].result = NoneResult

\* the spellings of the suffix .pdf in every letter case
PdfSpellings ==
    {<<".", p, d, f>> : p \in {"p", "P"}, d \in {"d", "D"}, f \in {"f", "F"}}

EndsInPdf(u) == \E suffix \in PdfSpellings : EndsWith(Text(u), suffix)

\* C6: PDF filtering: a URL that ends in .pdf, in any letter case, is never
\* in the queue, never drawn and never fetched
PdfFiltering ==
    \A u \in Urls :
        EndsInPdf(u) =>
            /\ u \notin Range(queue) \cup Range(batch) \cup visited
            /\ submitted[u] = 0
            /\ \A i \in 1..Len(tasks) : tasks[i].url # u

\* the result of a page with a link to a PDF file and an admitted link was
\* processed
PdfLinkFound ==
    /\ PdfDoc \in dropped
    /\ EndsInPdf(PdfDoc)
    /\ tasks = <<>>
    /\ queue # <<>>

\* C7 as stated: the queue holds each URL at most once and holds no URL of
\* the visited set
QueueHoldsEachUrlOnce ==
    /\ \A u \in Urls : Count(queue, u) <= 1
    /\ \A u \in Range(queue) : u \notin visited

\* C7 as amended: a link is appended to the queue only if it is not in the
\* visited set at that moment (the queue itself is not looked at)
EnqueueChecksVisited ==
    [][\A u \in Urls : Count(queue', u) > Count(queue, u) => u \notin visited]_vars

\* the queue holds a URL twice, or holds a URL that was visited since
QueueHoldsDuplicate ==
    /\ \E u \in Urls : Count(queue, u) >= 2
    /\ \E u \in Range(queue) : u \in visited

\* C8 as stated: the queue and the visited set change only while no worker
\* task is in flight
FrontierQuietInRound ==
    [][(queue' # queue \/ visited' # visited) => Running = {}]_vars

\* C8 as amended: the visited set changes only in the draw, while no task is
\* in flight; the queue changes in the draw or when the driver processes
\* the result of a completed task, by appending links of that result
FrontierDriverOnly ==
    [][/\ visited' # visited => (Running = {} /\ pc = "loop")
       /\ queue' # queue =>
            \/ Running = {} /\ pc = "loop"
            \/ /\ pc = "collect"
               /\ \E i \in 1..Len(tasks) :
                    /\ tasks[i].status = "done"
                    /\ tasks[i].round = round
                    /\ tasks' = RemoveAt(tasks, i)
                    /\ \E tail \in SeqsUpTo(Range(tasks[i].result.links),
                                            Len(tasks[i].result.links)) :
                          queue' = queue \o tail]_vars

\* links of a page of the current round are in the queue while another
\* task of the round is still in flight
EnqueuedInRound ==
    /\ pc = "collect"
    /\ Running # {}
    /\ output # <<>>
    /\ output[Len(output)].round = round
    /\ queue # <<>>
    /\ Len(batch) = 2

\* C9: termination: the crawl of a seed eventually returns
CrawlReturns == <>(pc = "done")

\* the position of a fetch outcome that is a status other than 200, 403, 409
Terminal(o) == o.exc = "none" /\ o.status \notin {0, 200, 403, 409}

\* C10: terminal failure is not retried: after an attempt that returned a
\* status other than 200, 403 and 409 the task is finished with the skip
\* result
TerminalNotRetried ==
    \A i \in 1..Len(tasks) :
        Terminal(tasks[i].last) =>
            /\ tasks[i].status = "done"
            /\ tasks[i].result = NoneResult

\* a task ended on a 404 at its first attempt, with an attempt left
TerminalWithAttemptsLeft ==
    \E i \in 1..Len(tasks) :
        /\ Terminal(tasks[i].last)
        /\ tasks[i].attempt = 1
        /\ retry_count >= 2

\* C11: only two termination conditions: whenever the crawl of a seed has
\* ended, the budget is reached or the queue holds no URL that is still to
\* be visited
OnlyTwoTerminations ==
    pc \in {"done", "raised"} =>
        (page_count >= max_pages \/ \A u \in Range(queue) : u \in visited)

Min(a, b) == IF a <= b THEN a ELSE b

\* C12: batch size: the batch drawn at the start of a round holds exactly
\* min(max_workers, max_pages - page_count, number of distinct unvisited
\* URLs in the queue) URLs; it is shorter than min(max_workers, max_pages -
\* page_count) only if the draw emptied the queue; and at most max_workers
\* tasks are in flight
BatchSize ==
    /\ [](Cardinality(Running) <= max_workers)
    /\ [][(pc = "loop" /\ queue # <<>> /\ page_count < max_pages) =>
            /\ Len(batch') =
                 Min(Min(max_workers, max_pages - page_count),
                     Cardinality(Range(queue) \ visited))
            /\ Len(batch') < Min(max_workers, max_pages - page_count)
                 => queue' = <<>>]_vars

\* a round of max_workers = 2 tasks was drawn and both tasks are in flight
FullBatchInFlight ==
    /\ Len(batch) = 2
    /\ max_workers = 2
    /\ Cardinality(Running) = 2
    /\ page_count + 2 <= max_pages

\* C13: success after transient failures: a task that got a 200 text/html
\* response after at least one retryable outcome has its page written and
\* counted exactly once: its result is still to be processed by the driver
\* or its URL has exactly one entry in the output, and no URL has two
RetriedPageWritten ==
    /\ \A u \in Urls : Cardinality({k \in 1..Len(output) : output[k].url = u}) <= 1
    /\ \A i \in 1..Len(tasks) :
         (/\ tasks[i].status = "done"
          /\ tasks[i].attempt >= 2
          /\ tasks[i].last.exc = "none"
          /\ tasks[i].last.status = 200
          /\ tasks[i].last.html
          /\ tasks[i].result.kind = "page")
            => pc = "collect"

\* C14: with max_pages = 1, once the seed page was fetched and written the
\* crawl has written exactly that one page, has run exactly one round and
\* has submitted none of the discovered links, for every max_workers
BudgetOfOne ==
    (max_pages = 1 /\ output # <<>>) =>
        /\ output = <<[url |-> start_url, round |-> 1]>>
        /\ page_count = 1
        /\ round = 1
        /\ \A u \in Urls \ {start_url} : submitted[u] = 0
        /\ submitted[start_url] = 1

\* the crawl with max_pages = 1 returned after the seed page, with two
\* discovered same-domain links left in the queue
OnePageCrawled ==
    /\ max_pages = 1
    /\ max_workers = 2
    /\ pc = "done"
    /\ Len(output) = 1
    /\ Len(queue) = 2
    /\ \A u \in Range(queue) : u.netloc = start_url.netloc /\ u \notin visited

\* C15: failure containment: no failure of a single page task ends the crawl
\* of the seed early: the driver is never stopped by an error of a task, so
\* it is in the loop, collecting the results of a round, or has returned
FailureContained ==
    /\ pc \in {"loop", "collect", "done"}
    /\ \A i \in 1..Len(tasks) :
         (tasks[i].status = "done" /\ tasks[i].round = round) =>
             pc = "collect"

\* C16: output round order: every page of a round is written before any
\* page of a later round
OutputRoundOrder ==
    \A j, k \in 1..Len(output) :
        j < k => output[j].round <= output[k].round

\* the two pages of round 2 were written after the seed page, in the
\* reverse of the order in which they were submitted
TwoRoundsWritten ==
    /\ Len(output) = 3
    /\ Len(batch) = 2
    /\ output[1].round = 1
    /\ output[2].round = 2
    /\ output[3].round = 2
    /\ output[2].url = batch[2]
    /\ output[3].url = batch[1]

\* the last fetch outcome of a task is a 200 response with HTML content
GotHtml(t) == t.last.exc = "none" /\ t.last.status = 200 /\ t.last.html

\* the driver takes the result of the finished task tasks[i] in this step
Consumes(i) ==
    /\ pc = "collect"
    /\ tasks[i].status = "done"
    /\ tasks' = RemoveAt(tasks, i)

\* C17: a skipped page changes nothing: when the driver processes the result
\* of a task that did not end with a 200 HTML response, page_count, the
\* output and the queue stay as they are; and the queue grows only when the
\* result of a task that got a 200 HTML response is processed
SkipChangesNothing ==
    [][/\ \A i \in 1..Len(tasks) :
            (Consumes(i) /\ ~GotHtml(tasks[i])) =>
                UNCHANGED <<page_count, output, queue>>
       /\ Len(queue') > Len(queue) =>
            \E i \in 1..Len(tasks) : Consumes(i) /\ GotHtml(tasks[i])]_vars

\* the only task of round 2 was skipped after at least one fetch attempt and
\* its result was processed: the output still holds the seed page alone
SkipProcessed ==
    /\ round = 2
    /\ pc = "collect"
    /\ tasks = <<>>
    /\ Len(batch) = 1
    /\ retry_count >= 1
    /\ Len(output) = 1
    /\ page_count = 1
    /\ queue # <<>>

\* the URLs of q that are not in skip, each once, in the order of their
\* first place in q
RECURSIVE Firsts(_, _)
Firsts(q, skip) ==
    IF q = <<>> THEN <<>>
    ELSE IF Head(q) \in skip THEN Firsts(Tail(q), skip)
    ELSE <<Head(q)>> \o Firsts(Tail(q), skip \cup {Head(q)})

IsSuffix(s, t) ==
    Len(s) <= Len(t) /\ SubSeq(t, Len(t) - Len(s) + 1, Len(t)) = s

IsPrefix(s, t) == Len(s) <= Len(t) /\ SubSeq(t, 1, Len(s)) = s

\* C18: FIFO draw order: a draw takes the not yet visited URLs from the
\* front of the queue, in the order of their first insertion, and leaves the
\* URLs it did not draw in the queue in their order; links are only ever
\* appended at the end of the queue
FifoDraw ==
    [][/\ (pc = "loop" /\ queue # <<>> /\ page_count < max_pages) =>
            /\ IsPrefix(batch', Firsts(queue, visited))
            /\ IsSuffix(queue', queue)
            /\ Firsts(queue', visited') =
                 SubSeq(Firsts(queue, visited), Len(batch') + 1,
                        Len(Firsts(queue, visited)))
       /\ pc # "loop" => IsPrefix(queue, queue')]_vars

\* with one worker, /x, the first link of the seed page, was drawn in round 2
\* and /y, its second link, is drawn in round 3
DrawnInOrder ==
    /\ max_workers = 1
    /\ round = 3
    /\ batch = <<PageY>>
    /\ submitted[PageX] = 1
    /\ output = <<[url |-> start_url, round |-> 1]>>

\* C19: the count of the crawl equals the number of pages written: every
\* task that yields a CrawlResult is written and counted exactly once (its
\* result is written or the driver is still to process it), page_count never
\* decreases and no URL has two entries in the output
CountMatchesOutput ==
    /\ [](/\ page_count = Len(output)
          /\ \A j, k \in 1..Len(output) :
                output[j].url = output[k].url => j = k
          /\ \A i \in 1..Len(tasks) :
                tasks[i].result.kind = "page" => pc = "collect")
    /\ [][page_count' >= page_count]_vars

\* C20: the budget holds at every moment: page_count plus the number of
\* tasks of the current round whose result is not yet processed is at most
\* max_pages
BudgetAtEveryMoment ==
    page_count + Cardinality({i \in 1..Len(tasks) : tasks[i].round = round})
        <= max_pages

\* two tasks of a round are unprocessed and would exactly fill the budget
BudgetFilledByRound ==
    /\ max_pages = 3
    /\ page_count = 1
    /\ pc = "collect"
    /\ Cardinality({i \in 1..Len(tasks) : tasks[i].round = round}) = 2

====
